---- MODULE Spec2Model ----
(***************************************************************************)
(* Model of the home-alarm controller of SecuritySystem.cpp: the poll loop *)
(* run(), the keypad dispatch handleKeypress(), the sensor monitor         *)
(* checkSensors() with its door, motion, proximity and entry-delay         *)
(* handlers, and the blocking alarm sub-loop handleAlarm().                *)
(*                                                                         *)
(* Time.  The code keeps millisecond timestamps (entryDelayStart,          *)
(* lastUpdate, lastUltrasonicAlert, lastMeasureTime) and only ever reads   *)
(* the difference Kernel::get_ms_count() - timestamp.  The model keeps     *)
(* that difference (the age of the timestamp, in ms) and lets it saturate  *)
(* at the largest threshold the code compares it with.                     *)
(***************************************************************************)
EXTENDS Integers, Sequences, FiniteSets, TLC

VARIABLES
    currentState,             \* SystemState currentState
    inputCode,                \* char inputCode[5], the 4 code characters
    codeIndex,                \* int codeIndex
    lastCommand,              \* char lastCommand
    entryDelayActive,         \* bool entryDelayActive
    sinceEntryDelayStart,     \* get_ms_count() - entryDelayStart
    lastDoorState,            \* bool lastDoorState
    sinceLastUltrasonicAlert, \* get_ms_count() - lastUltrasonicAlert
    inAlertZone,              \* static bool inAlertZone   (checkSensors)
    sinceLastMeasure,         \* get_ms_count() - lastMeasureTime (measureDistance)
    lastUpdateSet,            \* static lastUpdate # 0     (processEntryDelay)
    sinceLastUpdate,          \* get_ms_count() - lastUpdate
    pc,                       \* where the single thread of control stands
    codeEntryMode,            \* bool codeEntryMode (local of handleAlarm)
    alarmCaller,              \* the function that called handleAlarm
    logged,                   \* the events the last step passed to logEvent
    fed,                      \* the distance readings fed by a scenario run
    alertEntries,             \* alert-entry events counted by a scenario run
    keyDown,                  \* the keypad key that is physically down (NUL: none)
    heldKey,                  \* keys[row][col] while scanKeypad waits for its release
    mounted,                  \* bool SDCard::_mounted
    cardOk,                   \* fopen and fwrite on the card succeed at present
    written                   \* the events the last step appended to events.txt

vars == << currentState, inputCode, codeIndex, lastCommand, entryDelayActive,
           sinceEntryDelayStart, lastDoorState, sinceLastUltrasonicAlert,
           inAlertZone, sinceLastMeasure, lastUpdateSet, sinceLastUpdate, pc,
           codeEntryMode, alarmCaller, logged, fed, alertEntries, keyDown,
           heldKey, mounted, cardOk, written >>

----------------------------------------------------------------------------
(* Program constants *)

NUL == "NUL"

SECURITY_CODE == << "2", "5", "8", "0" >>

CODE_LENGTH == 4

ENTRY_DELAY_SEC == 30

UPDATE_PERIOD_MS == 1000

ALERT_RATE_MS == 1000

MEASURE_SPACING_MS == 60

ALERT_ENTER_CM == 10

ALERT_CLEAR_CM == 12

MAX_RANGE_CM == 400

MIN_RANGE_CM == 2

WRONG_CODE_MS == 1500

DOOR_NOTICE_MS == 1500

PROXIMITY_WARNING_MS == 500

SystemStates == { "DISARMED", "ARMED_HOME", "ARMED_AWAY", "ALARM" }

CommandKeys == { "A", "B", "C", "D", "*", "#" }

DigitKeys == { "0", "1", "2", "5", "8" }

Keys == CommandKeys \cup DigitKeys

EmptyCode == << NUL, NUL, NUL, NUL >>

----------------------------------------------------------------------------
(* Bounds of the model *)

\* the age of entryDelayStart saturates at MaxEntrySec seconds
MaxEntrySec == 32

\* duration of one pass of a loop, in ms: the time since the previous pass
Durations == { 500, 1000 }

\* raw distance readings of the ultrasonic sensor, in cm
Distances == { 9, 10, 12, 13 }

\* pass durations of the proximity runs: a bare 50 ms pass (line 135), which
\* is shorter than the measurement spacing, and a long one
FineDurations == { 50, 1000 }

\* readings fed by the hysteresis runs, and how many of them
ScenarioDistances == { 8, 9, 10, 11, 12, 13, 15 }

MaxFed == 5

----------------------------------------------------------------------------
(* The program state as one record, so that handlers compose as in the code *)

State ==
    [ currentState |-> currentState, inputCode |-> inputCode,
      codeIndex |-> codeIndex, lastCommand |-> lastCommand,
      entryDelayActive |-> entryDelayActive,
      sinceEntryDelayStart |-> sinceEntryDelayStart,
      lastDoorState |-> lastDoorState,
      sinceLastUltrasonicAlert |-> sinceLastUltrasonicAlert,
      inAlertZone |-> inAlertZone, sinceLastMeasure |-> sinceLastMeasure,
      lastUpdateSet |-> lastUpdateSet, sinceLastUpdate |-> sinceLastUpdate,
      pc |-> pc, codeEntryMode |-> codeEntryMode, alarmCaller |-> alarmCaller,
      logged |-> logged, fed |-> fed,
      alertEntries |-> alertEntries, keyDown |-> keyDown,
      heldKey |-> heldKey, mounted |-> mounted, cardOk |-> cardOk,
      written |-> written ]

Commit(s) ==
    /\ currentState' = s.currentState
    /\ inputCode' = s.inputCode
    /\ codeIndex' = s.codeIndex
    /\ lastCommand' = s.lastCommand
    /\ entryDelayActive' = s.entryDelayActive
    /\ sinceEntryDelayStart' = s.sinceEntryDelayStart
    /\ lastDoorState' = s.lastDoorState
    /\ sinceLastUltrasonicAlert' = s.sinceLastUltrasonicAlert
    /\ inAlertZone' = s.inAlertZone
    /\ sinceLastMeasure' = s.sinceLastMeasure
    /\ lastUpdateSet' = s.lastUpdateSet
    /\ sinceLastUpdate' = s.sinceLastUpdate
    /\ pc' = s.pc
    /\ codeEntryMode' = s.codeEntryMode
    /\ alarmCaller' = s.alarmCaller
    /\ logged' = s.logged
    /\ fed' = s.fed
    /\ alertEntries' = s.alertEntries
    /\ keyDown' = s.keyDown
    /\ heldKey' = s.heldKey
    /\ mounted' = s.mounted
    /\ cardOk' = s.cardOk
    /\ written' = s.written

Saturate(x, cap) == IF x > cap THEN cap ELSE x

\* ms milliseconds pass (a sleep_for, a tone, a loop pass): every timestamp ages.
\* entryDelayStart is dead while entryDelayActive is false: handleDoorOpen
\* (line 653) overwrites it before processEntryDelay (line 700) reads it
\* again.  The age of the dead timestamp is dropped (kept at 0).
Elapse(s, ms) ==
    [ s EXCEPT
        !.sinceEntryDelayStart =
            IF s.entryDelayActive THEN Saturate(@ + ms, MaxEntrySec * 1000) ELSE 0,
        !.sinceLastUpdate = Saturate(@ + ms, UPDATE_PERIOD_MS),
        !.sinceLastUltrasonicAlert = Saturate(@ + ms, ALERT_RATE_MS),
        !.sinceLastMeasure = Saturate(@ + ms, MEASURE_SPACING_MS) ]

\* lines 893-908: SDCard::writeData appends the entry to events.txt, or
\* returns false at once when the card is not mounted, the file cannot be
\* opened or the write comes up short
writeData(s, data) ==
    IF ~s.mounted THEN s
    ELSE IF ~s.cardOk THEN s
    ELSE [ s EXCEPT !.written = Append(@, data) ]

\* mutant of logEvent: a failed append is tried again after a pause of 1 s
logEvent_FailureRetries(s, event) ==
    LET l == [ s EXCEPT !.logged = Append(@, event) ]
    IN  IF s.mounted /\ s.cardOk THEN writeData(l, event)
        ELSE writeData(Elapse(l, 1000), event)

\* lines 815-835: the entry is formatted and handed to writeData, whose
\* result is dropped
logEvent(s, event) == writeData([ s EXCEPT !.logged = Append(@, event) ], event)

\* the C string held in a character array: the characters before the first NUL
RECURSIVE CString(_)
CString(buf) ==
    IF buf = << >> \/ Head(buf) = NUL THEN << >>
    ELSE << Head(buf) >> \o CString(Tail(buf))

\* mutant of validateCode: only the first 3 characters are compared
validateCode_PrefixOnly(buf) ==
    SubSeq(CString(buf), 1, 3) = SubSeq(CString(SECURITY_CODE), 1, 3)

\* strcmp(inputCode, SECURITY_CODE) == 0
validateCode(buf) == CString(buf) = CString(SECURITY_CODE)

\* codeIndex = 0; memset(inputCode, 0, sizeof(inputCode));
clearCode(s) == [ s EXCEPT !.codeIndex = 0, !.inputCode = EmptyCode ]

\* inputCode[codeIndex++] = key;
pushDigit(s, k) ==
    [ s EXCEPT !.inputCode = [ @ EXCEPT ![s.codeIndex + 1] = k ],
               !.codeIndex = @ + 1 ]

\* inputCode[--codeIndex] = 0;
popDigit(s) ==
    [ s EXCEPT !.inputCode = [ @ EXCEPT ![s.codeIndex] = NUL ],
               !.codeIndex = @ - 1 ]

resetEntryDelay(s) ==
    [ s EXCEPT !.entryDelayActive = FALSE, !.sinceEntryDelayStart = 0 ]

----------------------------------------------------------------------------
(* handleAlarm: entry, one pass of its while loop, and the return to the   *)
(* caller once currentState is no longer ALARM                             *)

\* lines 546-549: the thread enters the alarm sub-loop and blocks there
handleAlarmEnter(s, caller) ==
    [ logEvent(s, "ALARM TRIGGERED") EXCEPT
        !.codeEntryMode = FALSE, !.pc = "handleAlarm", !.alarmCaller = caller ]

\* mutant of alarmPhase1: 'C' opens code entry without clearing the buffer
alarmPhase1_BufferKept(s, k) ==
    IF k = "C"
    THEN [ s EXCEPT !.codeEntryMode = TRUE, !.lastCommand = "C" ]
    ELSE s

\* lines 553-570: phase 1, only 'C' is looked at
alarmPhase1(s, k) ==
    IF k = "C"
    THEN [ clearCode(s) EXCEPT !.codeEntryMode = TRUE, !.lastCommand = "C" ]
    ELSE s

\* mutant of alarmPhase2: '#' on a full buffer disarms without validateCode
alarmPhase2_NoValidation(s, k) ==
    IF k = NUL THEN s
    ELSE IF k \in DigitKeys /\ s.codeIndex < CODE_LENGTH THEN pushDigit(s, k)
    ELSE IF k = "#" /\ s.codeIndex = CODE_LENGTH THEN
        logEvent([ resetEntryDelay(s) EXCEPT !.currentState = "DISARMED" ],
                 "Alarm Disarmed")
    ELSE IF k = "*" /\ s.codeIndex > 0 THEN popDigit(s)
    ELSE s

\* lines 571-613: phase 2, code entry while the alarm sounds
alarmPhase2(s, k) ==
    IF k = NUL THEN s
    ELSE IF k \in DigitKeys /\ s.codeIndex < CODE_LENGTH THEN pushDigit(s, k)
    ELSE IF k = "#" /\ s.codeIndex = CODE_LENGTH THEN
        IF validateCode(s.inputCode)
        THEN logEvent([ resetEntryDelay(s) EXCEPT !.currentState = "DISARMED" ],
                      "Alarm Disarmed")
        ELSE Elapse(clearCode([ logEvent(s, "Wrong Code Entry During Alarm")
                                  EXCEPT !.codeEntryMode = FALSE ]), 1000)
    ELSE IF k = "*" /\ s.codeIndex > 0 THEN popDigit(s)
    ELSE s

\* lines 552-615: one pass of while(currentState == ALARM)
handleAlarmPass(s, k) ==
    IF s.codeEntryMode THEN alarmPhase2(s, k) ELSE alarmPhase1(s, k)

\* handleAlarm has returned with currentState = DISARMED; the caller runs on
\* to the end of the poll-loop pass.  Only checkSensors, when it was blocked
\* in handleMotionDetected, still has an effect: it samples the door (lines
\* 453-466, no case for DISARMED) before its remaining checks are skipped.
alarmReturn(s, door) ==
    [ s EXCEPT
        !.lastDoorState =
            IF s.alarmCaller = "handleMotionDetected" THEN door ELSE @,
        !.codeEntryMode = FALSE, !.alarmCaller = "none", !.pc = "scanKeypad" ]

----------------------------------------------------------------------------
(* handleKeypress *)

\* mutant of entryDelayKeypress: a valid code disarms but leaves the window active
entryDelayKeypress_WindowKept(s, k) ==
    IF k \in DigitKeys /\ s.codeIndex < CODE_LENGTH THEN pushDigit(s, k)
    ELSE IF k = "#" /\ s.codeIndex = CODE_LENGTH THEN
        IF validateCode(s.inputCode)
        THEN [ s EXCEPT !.currentState = "DISARMED" ]
        ELSE clearCode(Elapse(s, WRONG_CODE_MS))
    ELSE IF k = "*" /\ s.codeIndex > 0 THEN popDigit(s)
    ELSE s

\* mutant of entryDelayKeypress: a digit on a full buffer overwrites the last one
entryDelayKeypress_FullBufferOverwrites(s, k) ==
    IF k \in DigitKeys THEN
        IF s.codeIndex < CODE_LENGTH THEN pushDigit(s, k)
        ELSE [ s EXCEPT !.inputCode = [ @ EXCEPT ![CODE_LENGTH] = k ] ]
    ELSE IF k = "#" /\ s.codeIndex = CODE_LENGTH THEN
        IF validateCode(s.inputCode)
        THEN [ s EXCEPT !.entryDelayActive = FALSE, !.currentState = "DISARMED" ]
        ELSE clearCode(Elapse(s, WRONG_CODE_MS))
    ELSE IF k = "*" /\ s.codeIndex > 0 THEN popDigit(s)
    ELSE s

\* mutant of entryDelayKeypress: a wrong code restarts the entry-delay window
entryDelayKeypress_WrongCodeRestartsWindow(s, k) ==
    IF k \in DigitKeys /\ s.codeIndex < CODE_LENGTH THEN pushDigit(s, k)
    ELSE IF k = "#" /\ s.codeIndex = CODE_LENGTH THEN
        IF validateCode(s.inputCode)
        THEN [ s EXCEPT !.entryDelayActive = FALSE, !.currentState = "DISARMED" ]
        ELSE clearCode(Elapse([ s EXCEPT !.sinceEntryDelayStart = 0 ], WRONG_CODE_MS))
    ELSE IF k = "*" /\ s.codeIndex > 0 THEN popDigit(s)
    ELSE s

\* lines 208-248: the entry-delay path
entryDelayKeypress(s, k) ==
    IF k \in DigitKeys /\ s.codeIndex < CODE_LENGTH THEN pushDigit(s, k)
    ELSE IF k = "#" /\ s.codeIndex = CODE_LENGTH THEN
        IF validateCode(s.inputCode)
        THEN [ s EXCEPT !.entryDelayActive = FALSE, !.currentState = "DISARMED" ]
        ELSE clearCode(Elapse(s, WRONG_CODE_MS))
    ELSE IF k = "*" /\ s.codeIndex > 0 THEN popDigit(s)
    ELSE s

\* mutant of confirmCode: the buffer is cleared after the check of its length
confirmCode_ShortBufferCleared(s) ==
    IF s.codeIndex # CODE_LENGTH THEN clearCode(s)
    ELSE IF validateCode(s.inputCode) THEN
        clearCode(
            CASE s.lastCommand = "A" ->
                   logEvent([ resetEntryDelay(s) EXCEPT !.currentState = "ARMED_HOME" ],
                            "System Armed - Home Mode")
              [] s.lastCommand = "B" ->
                   logEvent([ resetEntryDelay(s) EXCEPT !.currentState = "ARMED_AWAY" ],
                            "System Armed - Away Mode")
              [] s.lastCommand = "C" ->
                   logEvent([ resetEntryDelay(s) EXCEPT !.currentState = "DISARMED" ],
                            "System Disarmed")
              [] OTHER -> s)
    ELSE clearCode(Elapse(s, WRONG_CODE_MS))

\* mutant of confirmCode: the 'B' branch arms home mode
confirmCode_AwayArmsHome(s) ==
    IF s.codeIndex # CODE_LENGTH THEN s
    ELSE IF validateCode(s.inputCode) THEN
        clearCode(
            CASE s.lastCommand \in { "A", "B" } ->
                   logEvent([ resetEntryDelay(s) EXCEPT !.currentState = "ARMED_HOME" ],
                            "System Armed - Home Mode")
              [] s.lastCommand = "C" ->
                   logEvent([ resetEntryDelay(s) EXCEPT !.currentState = "DISARMED" ],
                            "System Disarmed")
              [] OTHER -> s)
    ELSE clearCode(Elapse(s, WRONG_CODE_MS))

\* lines 298-348: case '#'
confirmCode(s) ==
    IF s.codeIndex # CODE_LENGTH THEN s
    ELSE IF validateCode(s.inputCode) THEN
        clearCode(
            CASE s.lastCommand = "A" ->
                   logEvent([ resetEntryDelay(s) EXCEPT !.currentState = "ARMED_HOME" ],
                            "System Armed - Home Mode")
              [] s.lastCommand = "B" ->
                   logEvent([ resetEntryDelay(s) EXCEPT !.currentState = "ARMED_AWAY" ],
                            "System Armed - Away Mode")
              [] s.lastCommand = "C" ->
                   logEvent([ resetEntryDelay(s) EXCEPT !.currentState = "DISARMED" ],
                            "System Disarmed")
              [] OTHER -> s)
    ELSE clearCode(Elapse(s, WRONG_CODE_MS))

\* lines 251-357: the switch of the normal path
normalKeypress(s, k) ==
    CASE k \in { "A", "B" } ->
           IF s.currentState # "ALARM"
           THEN [ clearCode(s) EXCEPT !.lastCommand = k ] ELSE s
      [] k = "C" ->
           IF s.currentState # "DISARMED"
           THEN [ clearCode(s) EXCEPT !.lastCommand = "C" ] ELSE s
      [] k = "D" ->
           handleAlarmEnter(
               logEvent([ s EXCEPT !.currentState = "ALARM" ], "Panic Button Pressed"),
               "handleKeypress")
      [] k = "*" -> IF s.codeIndex > 0 THEN popDigit(s) ELSE s
      [] k = "#" -> confirmCode(s)
      [] OTHER ->
           IF k \in DigitKeys /\ s.codeIndex < CODE_LENGTH THEN pushDigit(s, k) ELSE s

handleKeypress(s, k) ==
    IF s.currentState = "ARMED_AWAY" /\ s.entryDelayActive
    THEN entryDelayKeypress(s, k)
    ELSE normalKeypress(s, k)

----------------------------------------------------------------------------
(* checkSensors and the handlers it calls *)

\* mutant of handleMotionDetected: resetEntryDelay() is not called
handleMotionDetected_WindowKept(s, motionMsg) ==
    IF s.currentState # "ALARM"
    THEN handleAlarmEnter(
             logEvent([ s EXCEPT !.currentState = "ALARM" ], motionMsg),
             "handleMotionDetected")
    ELSE s

\* lines 619-627
handleMotionDetected(s, motionMsg) ==
    IF s.currentState # "ALARM"
    THEN handleAlarmEnter(
             logEvent([ resetEntryDelay(s) EXCEPT !.currentState = "ALARM" ], motionMsg),
             "handleMotionDetected")
    ELSE s

\* mutant of checkMotion: home mode triggers on either sensor
checkMotion_AnySensorInHome(s, pir1, pir2) ==
    IF pir1 \/ pir2 THEN
        IF s.currentState = "ARMED_AWAY" THEN handleMotionDetected(s, "Motion Detected!")
        ELSE IF s.currentState = "ARMED_HOME"
             THEN handleMotionDetected(s, "Outside Motion!")
             ELSE s
    ELSE s

\* lines 441-450: pir1 is the exterior sensor, pir2 the interior one
checkMotion(s, pir1, pir2) ==
    IF pir1 \/ pir2 THEN
        IF s.currentState = "ARMED_AWAY" THEN handleMotionDetected(s, "Motion Detected!")
        ELSE IF s.currentState = "ARMED_HOME" /\ pir1
             THEN handleMotionDetected(s, "Outside Motion!")
             ELSE s
    ELSE s

\* lines 630-657
handleDoorOpen(s, msg) ==
    LET l == logEvent(s, msg)
    IN  CASE s.currentState = "DISARMED" -> Elapse(l, 1000)
          [] s.currentState = "ARMED_HOME" -> Elapse(l, DOOR_NOTICE_MS)
          [] s.currentState = "ARMED_AWAY" ->
               clearCode([ l EXCEPT !.entryDelayActive = TRUE,
                                    !.sinceEntryDelayStart = 0 ])
          [] OTHER -> l

\* lines 453-466
checkDoor(s, currentDoorState) ==
    LET h == IF currentDoorState /\ ~s.lastDoorState THEN
                 CASE s.currentState = "ARMED_HOME" -> handleDoorOpen(s, "Door Opened")
                   [] s.currentState = "ARMED_AWAY" -> handleDoorOpen(s, "Entry Started")
                   [] OTHER -> s
             ELSE s
    IN  [ h EXCEPT !.lastDoorState = currentDoorState ]

\* lines 493-542: the value measureDistance returns for the raw reading raw
\* (echo timeouts and out-of-range readings give the 400.0 sentinel)
measuredDistance(s, raw) ==
    IF s.sinceLastMeasure < MEASURE_SPACING_MS THEN MAX_RANGE_CM
    ELSE IF raw < MIN_RANGE_CM \/ raw > MAX_RANGE_CM THEN MAX_RANGE_CM
    ELSE raw

\* lines 498-501: lastMeasureTime = currentTime unless the call came too soon
measureDistance(s) ==
    IF s.sinceLastMeasure < MEASURE_SPACING_MS THEN s
    ELSE [ s EXCEPT !.sinceLastMeasure = 0 ]

\* mutant of handleUltrasonicAlert: the home branch raises the alarm too
handleUltrasonicAlert_HomeEscalates(s, alertMsg) ==
    IF s.sinceLastUltrasonicAlert < ALERT_RATE_MS THEN s
    ELSE IF s.currentState \in { "ARMED_HOME", "ARMED_AWAY" }
         THEN handleAlarmEnter(
                  [ logEvent([ s EXCEPT !.sinceLastUltrasonicAlert = 0 ], alertMsg)
                      EXCEPT !.currentState = "ALARM" ],
                  "handleUltrasonicAlert")
         ELSE [ s EXCEPT !.sinceLastUltrasonicAlert = 0 ]

\* mutant of handleUltrasonicAlert: the rate limit of lines 664-666 is missing
handleUltrasonicAlert_NoRateLimit(s, alertMsg) ==
    LET t == [ s EXCEPT !.sinceLastUltrasonicAlert = 0 ]
    IN  CASE t.currentState = "ARMED_HOME" ->
               Elapse(logEvent(t, alertMsg), PROXIMITY_WARNING_MS)
          [] t.currentState = "ARMED_AWAY" ->
               handleAlarmEnter(
                   [ logEvent(t, alertMsg) EXCEPT !.currentState = "ALARM" ],
                   "handleUltrasonicAlert")
          [] OTHER -> t

\* lines 660-690
handleUltrasonicAlert(s, alertMsg) ==
    IF s.sinceLastUltrasonicAlert < ALERT_RATE_MS THEN s
    ELSE LET t == [ s EXCEPT !.sinceLastUltrasonicAlert = 0 ]
         IN  CASE t.currentState = "ARMED_HOME" ->
                    Elapse(logEvent(t, alertMsg), PROXIMITY_WARNING_MS)
               [] t.currentState = "ARMED_AWAY" ->
                    handleAlarmEnter(
                        [ logEvent(t, alertMsg) EXCEPT !.currentState = "ALARM" ],
                        "handleUltrasonicAlert")
               [] OTHER -> t

\* mutant of proximityLatch: the latch clears at the enter threshold (no hysteresis)
proximityLatch_NoHysteresis(s, distance) ==
    IF distance < ALERT_ENTER_CM /\ ~s.inAlertZone THEN
        LET z == [ s EXCEPT !.inAlertZone = TRUE ]
        IN  CASE z.currentState = "ARMED_HOME" -> handleUltrasonicAlert(z, "Proximity Alert")
              [] z.currentState = "ARMED_AWAY" -> handleUltrasonicAlert(z, "Window Breach!")
              [] OTHER -> z
    ELSE IF distance >= ALERT_ENTER_CM THEN [ s EXCEPT !.inAlertZone = FALSE ]
    ELSE s

\* lines 474-483: the hysteresis latch, fed the measured distance
proximityLatch(s, distance) ==
    IF distance < ALERT_ENTER_CM /\ ~s.inAlertZone THEN
        LET z == [ s EXCEPT !.inAlertZone = TRUE ]
        IN  CASE z.currentState = "ARMED_HOME" -> handleUltrasonicAlert(z, "Proximity Alert")
              [] z.currentState = "ARMED_AWAY" -> handleUltrasonicAlert(z, "Window Breach!")
              [] OTHER -> z
    ELSE IF distance > ALERT_CLEAR_CM THEN [ s EXCEPT !.inAlertZone = FALSE ]
    ELSE s

\* lines 469-484
checkUltrasonic(s, raw) ==
    IF s.currentState # "DISARMED" /\ ~s.entryDelayActive
    THEN proximityLatch(measureDistance(s), measuredDistance(s, raw))
    ELSE s

\* lines 700-701: uint32_t remaining = 30 - elapsed, a difference modulo 2^32.
\* It is kept as the signed integer with the same 32 bits (-1 for 0xFFFFFFFF).
remainingSeconds(sinceStart) == ENTRY_DELAY_SEC - (sinceStart \div 1000)

\* line 707: remaining > 0 on a uint32_t: true unless all 32 bits are zero
unsignedPositive(bits) == bits # 0

\* lines 693-735
processEntryDelay(s) ==
    IF ~s.entryDelayActive THEN s
    ELSE IF s.sinceLastUpdate >= UPDATE_PERIOD_MS \/ ~s.lastUpdateSet THEN
        LET u == [ s EXCEPT !.sinceLastUpdate = 0, !.lastUpdateSet = TRUE ]
        IN  IF unsignedPositive(remainingSeconds(s.sinceEntryDelayStart)) THEN u
            ELSE handleAlarmEnter(
                     [ u EXCEPT !.entryDelayActive = FALSE, !.currentState = "ALARM" ],
                     "processEntryDelay")
    ELSE s

\* lines 439-490.  A call of handleAlarm blocks: the record returned then
\* stands in handleAlarm, and what is left of checkSensors is in alarmReturn.
checkSensors(s, pir1, pir2, door, raw) ==
    LET m == checkMotion(s, pir1, pir2)
    IN  IF m.pc = "handleAlarm" THEN m
        ELSE LET u == checkUltrasonic(checkDoor(m, door), raw)
             IN  IF u.pc = "handleAlarm" THEN u
                 ELSE IF u.currentState = "ARMED_AWAY" /\ u.entryDelayActive
                      THEN processEntryDelay(u)
                      ELSE u

----------------------------------------------------------------------------
(* The state machine *)

Init ==
    /\ currentState = "DISARMED"
    /\ inputCode = EmptyCode
    /\ codeIndex = 0
    /\ lastCommand = NUL
    /\ entryDelayActive = FALSE
    /\ sinceEntryDelayStart = 0
    /\ lastDoorState = FALSE
    /\ sinceLastUltrasonicAlert = ALERT_RATE_MS
    /\ inAlertZone = FALSE
    /\ sinceLastMeasure = MEASURE_SPACING_MS
    /\ lastUpdateSet = FALSE
    /\ sinceLastUpdate = UPDATE_PERIOD_MS
    /\ pc = "scanKeypad"
    /\ codeEntryMode = FALSE
    /\ alarmCaller = "none"
    /\ logged = << >>
    /\ fed = << >>
    /\ alertEntries = 0
    /\ keyDown = NUL
    /\ heldKey = NUL
    /\ mounted = TRUE
    /\ cardOk = TRUE
    /\ written = << >>

\* The digit keys the user presses: the digit the provisioned code has at the
\* buffer position about to be written, or the digit 1, which the code does
\* not contain (any other digit is, like 1, a wrong digit at that position).
UserKeys ==
    CommandKeys \cup { "1" } \cup
    (IF codeIndex < CODE_LENGTH THEN { SECURITY_CODE[codeIndex + 1] } ELSE { })

\* run(), lines 117-120: d ms after the previous pass, scanKeypad returns k
\* (NUL: no key) and handleKeypress handles it.
scanPass(s, k, d) ==
    LET e == Elapse([ s EXCEPT !.logged = << >>, !.written = << >> ], d)
        h == IF k = NUL THEN e ELSE handleKeypress(e, k)
    IN  IF h.pc = "handleAlarm" THEN h ELSE [ h EXCEPT !.pc = "checkSensors" ]

Scan(k, d) ==
    /\ pc = "scanKeypad"
    /\ Commit(scanPass(State, k, d))

\* mutant of sensePass: the sensors are checked while disarmed too
sensePass_CheckedWhileDisarmed(s, pir1, pir2, door, raw) ==
    LET e == [ s EXCEPT !.logged = << >>, !.written = << >> ]
        c == IF e.currentState # "ALARM"
             THEN checkSensors(e, pir1, pir2, door, raw)
             ELSE e
    IN  IF c.pc = "handleAlarm" THEN c ELSE [ c EXCEPT !.pc = "scanKeypad" ]

\* run(), lines 122-135: the sensors are checked while armed, then the pass ends
sensePass(s, pir1, pir2, door, raw) ==
    LET e == [ s EXCEPT !.logged = << >>, !.written = << >> ]
        c == IF e.currentState # "DISARMED" /\ e.currentState # "ALARM"
             THEN checkSensors(e, pir1, pir2, door, raw)
             ELSE e
    IN  IF c.pc = "handleAlarm" THEN c ELSE [ c EXCEPT !.pc = "scanKeypad" ]

Sense(pir1, pir2, door, raw) ==
    /\ pc = "checkSensors"
    /\ Commit(sensePass(State, pir1, pir2, door, raw))

\* handleAlarm, lines 552-615: one pass of the alarm loop, d ms after the
\* previous one; when the pass disarms, control returns to the caller.
alarmPass(s, k, d, door) ==
    LET e == Elapse([ s EXCEPT !.logged = << >>, !.written = << >> ], d)
        a == handleAlarmPass(e, k)
    IN  IF a.currentState = "ALARM" THEN a ELSE alarmReturn(a, door)

Alarm(k, d, door) ==
    /\ pc = "handleAlarm"
    /\ Commit(alarmPass(State, k, d, door))

\* the poll loop and the alarm loop, with passes lasting durations ms, the
\* door contact reading one of doors and the distance sensor one of distances
Run(durations, doors, distances) ==
    \/ \E k \in UserKeys \cup { NUL }, d \in durations : Scan(k, d)
    \/ \E pir1, pir2 \in BOOLEAN, door \in doors, raw \in distances :
          Sense(pir1, pir2, door, raw)
    \/ \E k \in UserKeys \cup { NUL }, d \in durations, door \in doors :
          Alarm(k, d, door)

Next == Run(Durations, BOOLEAN, Distances)

Spec == Init /\ [][Next]_vars

\* Proximity runs: short passes, the door stays closed (no entry delay).
NextProx == Run(FineDurations, { FALSE }, Distances)

SpecProx == Init /\ [][NextProx]_vars

\* Hysteresis runs: the system has been armed in home mode (A 2 5 8 0 #), no
\* key is pressed, nothing moves, the door stays closed, and up to MaxFed
\* distance readings are fed, one per sensor pass.
InitHysteresis ==
    /\ currentState = "ARMED_HOME"
    /\ inputCode = EmptyCode
    /\ codeIndex = 0
    /\ lastCommand = "A"
    /\ entryDelayActive = FALSE
    /\ sinceEntryDelayStart = 0
    /\ lastDoorState = FALSE
    /\ sinceLastUltrasonicAlert = ALERT_RATE_MS
    /\ inAlertZone = FALSE
    /\ sinceLastMeasure = MEASURE_SPACING_MS
    /\ lastUpdateSet = FALSE
    /\ sinceLastUpdate = UPDATE_PERIOD_MS
    /\ pc = "checkSensors"
    /\ codeEntryMode = FALSE
    /\ alarmCaller = "none"
    /\ logged = << "System Armed - Home Mode" >>
    /\ fed = << >>
    /\ alertEntries = 0
    /\ keyDown = NUL
    /\ heldKey = NUL
    /\ mounted = TRUE
    /\ cardOk = TRUE
    /\ written = << "System Armed - Home Mode" >>

\* a sensor pass that is fed the reading raw; it counts the alert-entry events
Feed(raw) ==
    /\ pc = "checkSensors"
    /\ Len(fed) < MaxFed
    /\ LET n == sensePass(State, FALSE, FALSE, FALSE, raw)
       IN  Commit([ n EXCEPT
                      !.fed = Append(@, raw),
                      !.alertEntries =
                          IF n.inAlertZone /\ ~inAlertZone THEN @ + 1 ELSE @ ])

Idle(d) == Scan(NUL, d)

NextHysteresis ==
    \/ \E raw \in ScenarioDistances : Feed(raw)
    \/ \E d \in Durations : Idle(d)

SpecHysteresis == InitHysteresis /\ [][NextHysteresis]_vars

\* Spacing runs: the hysteresis runs with poll passes that may be as short as
\* the bare 50 ms sleep of line 135, so that a distance request can come
\* less than 60 ms after the previous measurement
SpacingDistances == { 8, 9, 13 }

NextSpacing ==
    \/ \E raw \in SpacingDistances : Feed(raw)
    \/ \E d \in FineDurations : Idle(d)

SpecSpacing == InitHysteresis /\ [][NextSpacing]_vars

\* Storage runs: initialize() (lines 58-64) mounted the card or failed to,
\* and while the system runs the card may stop and resume taking appends.
LogDurations == { 1000 }

LogDistances == { 9, 13 }

InitLog ==
    /\ currentState = "DISARMED"
    /\ inputCode = EmptyCode
    /\ codeIndex = 0
    /\ lastCommand = NUL
    /\ entryDelayActive = FALSE
    /\ sinceEntryDelayStart = 0
    /\ lastDoorState = FALSE
    /\ sinceLastUltrasonicAlert = ALERT_RATE_MS
    /\ inAlertZone = FALSE
    /\ sinceLastMeasure = MEASURE_SPACING_MS
    /\ lastUpdateSet = FALSE
    /\ sinceLastUpdate = UPDATE_PERIOD_MS
    /\ pc = "scanKeypad"
    /\ codeEntryMode = FALSE
    /\ alarmCaller = "none"
    /\ fed = << >>
    /\ alertEntries = 0
    /\ keyDown = NUL
    /\ heldKey = NUL
    /\ mounted \in BOOLEAN
    /\ cardOk = mounted
    /\ logged = IF mounted THEN << "System Started" >> ELSE << >>
    /\ written = logged

CardFails ==
    /\ mounted /\ cardOk
    /\ Commit([ State EXCEPT !.cardOk = FALSE ])

CardRecovers ==
    /\ mounted /\ ~cardOk
    /\ Commit([ State EXCEPT !.cardOk = TRUE ])

NextLog ==
    \/ Run(LogDurations, BOOLEAN, LogDistances)
    \/ CardFails
    \/ CardRecovers

SpecLog == InitLog /\ [][NextLog]_vars

\* Breach runs: a proximity run (any keys, any readings) up to the moment an
\* object comes inside the alert zone while the system is armed away with no
\* entry delay and the latch clear.  From then on the object stays where it
\* is and nobody touches the keypad: fed holds the one reading every later
\* measurement sees.  The thread never stops, so its passes are weakly fair.
BreachDistances == { 8, 9 }

Setup ==
    /\ fed = << >>
    /\ NextProx

ObjectArrives(raw) ==
    /\ fed = << >>
    /\ pc = "checkSensors"
    /\ currentState = "ARMED_AWAY"
    /\ ~entryDelayActive
    /\ ~inAlertZone
    /\ Commit([ sensePass(State, FALSE, FALSE, FALSE, raw) EXCEPT !.fed = << raw >> ])

ObjectStays ==
    /\ fed # << >>
    /\ Sense(FALSE, FALSE, FALSE, fed[1])

QuietScan(d) ==
    /\ fed # << >>
    /\ Scan(NUL, d)

QuietAlarm(d) ==
    /\ fed # << >>
    /\ Alarm(NUL, d, FALSE)

ThreadBreach ==
    \/ ObjectStays
    \/ \E d \in FineDurations : QuietScan(d)
    \/ \E d \in FineDurations : QuietAlarm(d)

NextBreach ==
    \/ Setup
    \/ \E raw \in BreachDistances : ObjectArrives(raw)
    \/ ThreadBreach

SpecBreach == Init /\ [][NextBreach]_vars /\ WF_vars(ThreadBreach)

\* Validation runs: 4 digits, any of the keypad's ten, stand in the buffer on
\* one of the three paths that confirm a code (normal path with 'A' pending,
\* entry delay, alarm sub-loop in code entry), and '#' is pressed.
AllDigits == { "0", "1", "2", "3", "4", "5", "6", "7", "8", "9" }

InitValidate ==
    /\ currentState \in { "DISARMED", "ARMED_AWAY", "ALARM" }
    /\ inputCode \in [ 1 .. CODE_LENGTH -> AllDigits ]
    /\ codeIndex = CODE_LENGTH
    /\ lastCommand = CASE currentState = "DISARMED" -> "A"
                       [] currentState = "ARMED_AWAY" -> "B"
                       [] OTHER -> "C"
    /\ entryDelayActive = (currentState = "ARMED_AWAY")
    /\ sinceEntryDelayStart = 0
    /\ lastDoorState = (currentState = "ARMED_AWAY")
    /\ sinceLastUltrasonicAlert = ALERT_RATE_MS
    /\ inAlertZone = FALSE
    /\ sinceLastMeasure = MEASURE_SPACING_MS
    /\ lastUpdateSet = (currentState = "ARMED_AWAY")
    /\ sinceLastUpdate = 0
    /\ pc = IF currentState = "ALARM" THEN "handleAlarm" ELSE "scanKeypad"
    /\ codeEntryMode = (currentState = "ALARM")
    /\ alarmCaller = IF currentState = "ALARM" THEN "handleKeypress" ELSE "none"
    /\ logged = << >>
    /\ fed = << >>
    /\ alertEntries = 0
    /\ keyDown = NUL
    /\ heldKey = NUL
    /\ mounted = TRUE
    /\ cardOk = TRUE
    /\ written = << >>

Confirm(d) ==
    \/ Scan("#", d)
    \/ Alarm("#", d, FALSE)

NextValidate == \E d \in LogDurations : Confirm(d)

SpecValidate == InitValidate /\ [][NextValidate]_vars

\* Keypad runs: scanKeypad with its key-release wait (lines 380-382) as steps
\* of its own.  The user presses and releases keys when they like; the thread
\* of control always takes its next step.  The echo waits of measureDistance
\* (lines 515-529) end by their timeouts with the 400.0 sentinel, so a sensor
\* pass stays one step; WaitDistances holds that sentinel.
WaitDurations == { 1000 }

WaitDistances == { 9, 400 }

\* the keys pressed in the keypad runs: a digit, and the confirm key
WaitKeys == { "1", "#" }

\* the system has been armed in away mode (B 2 5 8 0 #)
InitWait ==
    /\ currentState = "ARMED_AWAY"
    /\ inputCode = EmptyCode
    /\ codeIndex = 0
    /\ lastCommand = "B"
    /\ entryDelayActive = FALSE
    /\ sinceEntryDelayStart = 0
    /\ lastDoorState = FALSE
    /\ sinceLastUltrasonicAlert = ALERT_RATE_MS
    /\ inAlertZone = FALSE
    /\ sinceLastMeasure = MEASURE_SPACING_MS
    /\ lastUpdateSet = FALSE
    /\ sinceLastUpdate = UPDATE_PERIOD_MS
    /\ pc = "checkSensors"
    /\ codeEntryMode = FALSE
    /\ alarmCaller = "none"
    /\ logged = << "System Armed - Away Mode" >>
    /\ fed = << >>
    /\ alertEntries = 0
    /\ keyDown = NUL
    /\ heldKey = NUL
    /\ mounted = TRUE
    /\ cardOk = TRUE
    /\ written = << "System Armed - Away Mode" >>

PressKey(k) ==
    /\ keyDown = NUL
    /\ Commit([ State EXCEPT !.keyDown = k ])

ReleaseKey ==
    /\ keyDown # NUL
    /\ Commit([ State EXCEPT !.keyDown = NUL ])

\* lines 371-379: the scan finds no key down (return 0), or finds one and
\* starts waiting for its release
scanKeypad(s, d, noKey) ==
    IF s.keyDown = NUL THEN noKey
    ELSE Elapse([ s EXCEPT !.heldKey = s.keyDown, !.pc = "waitRelease",
                           !.logged = << >>, !.written = << >> ], d)

PollScan(d) ==
    /\ pc = "scanKeypad"
    /\ Commit(scanKeypad(State, d, scanPass(State, NUL, d)))

AlarmScan(d, door) ==
    /\ pc = "handleAlarm"
    /\ Commit(scanKeypad(State, d, alarmPass(State, NUL, d, door)))

\* lines 380-385: one more turn of the release wait while the key is still
\* down; once it is up the key is returned to the loop that called scanKeypad
WaitRelease(d, door) ==
    /\ pc = "waitRelease"
    /\ IF keyDown = heldKey
       THEN Commit(Elapse(State, d))
       ELSE LET r == [ State EXCEPT !.heldKey = NUL ]
            IN  IF currentState = "ALARM"
                THEN Commit(alarmPass([ r EXCEPT !.pc = "handleAlarm" ],
                                      heldKey, d, door))
                ELSE Commit(scanPass([ r EXCEPT !.pc = "scanKeypad" ],
                                     heldKey, d))

ThreadWait ==
    \/ \E d \in WaitDurations : PollScan(d)
    \/ \E d \in WaitDurations, door \in BOOLEAN : AlarmScan(d, door)
    \/ \E d \in WaitDurations, door \in BOOLEAN : WaitRelease(d, door)
    \/ \E door \in BOOLEAN, raw \in WaitDistances : Sense(FALSE, FALSE, door, raw)

NextWait ==
    \/ \E k \in WaitKeys : PressKey(k)
    \/ ReleaseKey
    \/ ThreadWait

SpecWait == InitWait /\ [][NextWait]_vars /\ WF_vars(ThreadWait)

----------------------------------------------------------------------------
(* Claims *)

AllKeys == Keys \cup { NUL }

Armed == { "ARMED_HOME", "ARMED_AWAY" }

\* the condition under which a pass of the alarm loop disarms
AlarmDisarmCondition(k) ==
    /\ codeEntryMode
    /\ k = "#"
    /\ codeIndex = CODE_LENGTH
    /\ inputCode = SECURITY_CODE

\* C1: ALARM is held exactly inside the alarm sub-loop; a pass of the loop
\* leaves ALARM only for DISARMED, and only when code entry was opened (by
\* 'C', the one key that opens it) and '#' is pressed on a buffer holding the
\* 4 digits of the provisioned code; every other key leaves the state ALARM.
C1_AlarmHeldUntilDisarm ==
    /\ [](currentState = "ALARM" <=> pc = "handleAlarm")
    /\ [](pc = "handleAlarm" =>
            \A k \in AllKeys, d \in Durations, door \in BOOLEAN :
                LET n == alarmPass(State, k, d, door)
                IN  /\ n.currentState \in { "ALARM", "DISARMED" }
                    /\ n.currentState = "DISARMED" <=> AlarmDisarmCondition(k)
                    /\ (n.codeEntryMode /\ ~codeEntryMode) => k = "C")
    /\ [][currentState = "ALARM" =>
            \/ currentState' = "ALARM"
            \/ /\ currentState' = "DISARMED"
               /\ codeEntryMode /\ codeIndex = CODE_LENGTH
               /\ inputCode = SECURITY_CODE]_vars

C1_Witness ==
    /\ currentState = "DISARMED"
    /\ pc = "scanKeypad"
    /\ logged = << "Alarm Disarmed" >>

PendingTarget(cmd) ==
    CASE cmd = "A" -> "ARMED_HOME"
      [] cmd = "B" -> "ARMED_AWAY"
      [] cmd = "C" -> "DISARMED"

\* C2: outside ALARM and outside an active entry delay, '#' on a buffer that
\* holds the provisioned code sets the state the pending command names
\* ('A' ARMED_HOME, 'B' ARMED_AWAY, 'C' DISARMED) from DISARMED, ARMED_HOME
\* and ARMED_AWAY alike, leaves the entry-delay window inactive and appends
\* exactly one transition record.
C2_ValidCodeAppliesPendingCommand ==
    ( /\ pc = "scanKeypad"
      /\ currentState # "ALARM"
      /\ ~entryDelayActive
      /\ codeIndex = CODE_LENGTH
      /\ inputCode = SECURITY_CODE
      /\ lastCommand \in { "A", "B", "C" } )
    => \A d \in Durations :
          LET n == scanPass(State, "#", d)
          IN  /\ n.currentState = PendingTarget(lastCommand)
              /\ ~n.entryDelayActive
              /\ n.logged \in { << "System Armed - Home Mode" >>,
                                << "System Armed - Away Mode" >>,
                                << "System Disarmed" >> }
              /\ n.logged = << "System Armed - Home Mode" >> <=> lastCommand = "A"
              /\ n.logged = << "System Armed - Away Mode" >> <=> lastCommand = "B"

C2_Witness ==
    /\ currentState = "ARMED_AWAY"
    /\ pc = "checkSensors"
    /\ logged = << "System Armed - Away Mode" >>
    /\ ~entryDelayActive

\* C3: with the entry delay started by a door-open edge in ARMED_AWAY and no
\* valid code entered, the state is ALARM once 30 seconds have elapsed: at the
\* end of a sensor pass the window is never still active 31 s after the edge.
C3_EntryDelayExpiresToAlarm ==
    (pc = "scanKeypad" /\ currentState = "ARMED_AWAY" /\ entryDelayActive)
    => sinceEntryDelayStart < (ENTRY_DELAY_SEC + 1) * 1000

\* C4: during an active entry delay in ARMED_AWAY, '#' on a buffer holding the
\* provisioned code, at any age of the window, sets DISARMED and deactivates
\* the window; the sensor pass that follows leaves the state DISARMED, and the
\* alarm is entered from the countdown only while the window is active.
C4_ValidCodeCancelsEntryDelay ==
    /\ []( ( /\ pc = "scanKeypad"
             /\ currentState = "ARMED_AWAY"
             /\ entryDelayActive
             /\ codeIndex = CODE_LENGTH
             /\ inputCode = SECURITY_CODE )
           => \A d \in Durations :
                 LET n == scanPass(State, "#", d)
                 IN  /\ n.currentState = "DISARMED"
                     /\ ~n.entryDelayActive
                     /\ n.pc = "checkSensors"
                     /\ \A pir1, pir2, door \in BOOLEAN, raw \in Distances :
                           LET m == sensePass(n, pir1, pir2, door, raw)
                           IN  m.currentState = "DISARMED" /\ ~m.entryDelayActive )
    /\ [][(pc # "handleAlarm" /\ pc' = "handleAlarm"
               /\ alarmCaller' = "processEntryDelay")
            => (entryDelayActive /\ currentState = "ARMED_AWAY")]_vars

\* the valid code was confirmed while 1 second remained
C4_Witness ==
    /\ currentState = "DISARMED"
    /\ pc = "checkSensors"
    /\ ~entryDelayActive
    /\ inputCode = SECURITY_CODE
    /\ remainingSeconds(sinceEntryDelayStart) = 1

\* C5: the panic key 'D' pressed in any state other than ALARM, with or
\* without an active entry delay and whatever the buffer holds, sets ALARM and
\* appends the panic record.
C5_PanicAlwaysAlarms ==
    (pc = "scanKeypad" /\ currentState # "ALARM")
    => \A d \in Durations :
          LET n == scanPass(State, "D", d)
          IN  /\ n.currentState = "ALARM"
              /\ n.logged # << >>
              /\ Head(n.logged) = "Panic Button Pressed"

\* C6: in every sensor pass in ARMED_HOME, interior-only motion leaves the
\* state ARMED_HOME, and exterior motion sets ALARM in that pass.
C6_HomeMotionAsymmetry ==
    (pc = "checkSensors" /\ currentState = "ARMED_HOME")
    => \A door \in BOOLEAN, raw \in Distances :
          /\ sensePass(State, FALSE, TRUE, door, raw).currentState = "ARMED_HOME"
          /\ \A pir2 \in BOOLEAN :
                sensePass(State, TRUE, pir2, door, raw).currentState = "ALARM"

C6_Witness ==
    /\ currentState = "ALARM"
    /\ alarmCaller = "handleMotionDetected"
    /\ logged = << "Outside Motion!", "ALARM TRIGGERED" >>

\* C8: in ARMED_HOME no distance reading changes the state: a sensor pass
\* without exterior motion leaves ARMED_HOME whatever the reading and the
\* latch, and ARMED_HOME is left only by the keypad or by motion.
C8_HomeProximityNeverAlarms ==
    /\ []( (pc = "checkSensors" /\ currentState = "ARMED_HOME")
           => \A pir2, door \in BOOLEAN, raw \in Distances :
                 sensePass(State, FALSE, pir2, door, raw).currentState = "ARMED_HOME" )
    /\ [][(currentState = "ARMED_HOME" /\ currentState' # "ARMED_HOME")
            => (pc = "scanKeypad" \/ alarmCaller' = "handleMotionDetected")]_vars

C8_Witness ==
    /\ currentState = "ARMED_HOME"
    /\ inAlertZone
    /\ logged # << >>
    /\ logged[Len(logged)] = "Proximity Alert"

\* the keys pressed one per pass of the alarm loop, until the loop is left
RECURSIVE alarmKeys(_, _, _)
alarmKeys(s, keys, d) ==
    IF keys = << >> \/ s.currentState # "ALARM" THEN s
    ELSE alarmKeys(alarmPass(s, Head(keys), d, FALSE), Tail(keys), d)

DisarmSequence ==
    IF codeEntryMode
    THEN << "*", "*", "*", "*" >> \o SECURITY_CODE \o << "#" >>
    ELSE << "C" >> \o SECURITY_CODE \o << "#" >>

\* C10: from every reachable ALARM state, in either phase of the sub-loop and
\* with any buffer content, a finite key sequence leads to DISARMED: from
\* phase 1 the keys C,2,5,8,0,#, from phase 2 four '*' then 2,5,8,0,#.
C10_DisarmReachableFromAlarm ==
    currentState = "ALARM"
    => /\ pc = "handleAlarm"
       /\ \A d \in Durations :
             alarmKeys(State, DisarmSequence, d).currentState = "DISARMED"

\* in ALARM after a wrong code attempt
C10_Witness ==
    /\ currentState = "ALARM"
    /\ ~codeEntryMode
    /\ logged = << "Wrong Code Entry During Alarm" >>

\* an ultrasonic alert action (home warning or away alarm) happens in the step
AlertAction ==
    \E i \in DOMAIN logged' : logged'[i] \in { "Proximity Alert", "Window Breach!" }

\* the age of lastUltrasonicAlert when handleUltrasonicAlert reads the clock in
\* the step: a door notice in home mode passes DOOR_NOTICE_MS before it
AlertAgeInStep ==
    Saturate(sinceLastUltrasonicAlert
                 + (IF currentState = "ARMED_HOME" /\ logged' # << >>
                       /\ Head(logged') = "Door Opened"
                    THEN DOOR_NOTICE_MS ELSE 0),
             ALERT_RATE_MS)

\* C7: in ARMED_AWAY with no entry delay running, a measured distance below
\* 10 cm with the latch clear sets ALARM in that sensor pass, unless an alert
\* action happened less than 1000 ms before; and every ultrasonic alert action
\* comes at least 1000 ms after the previous one.
C7_AwayProximityAlarmRateLimited ==
    /\ []( ( /\ pc = "checkSensors"
             /\ currentState = "ARMED_AWAY"
             /\ ~entryDelayActive
             /\ ~inAlertZone
             /\ sinceLastUltrasonicAlert >= ALERT_RATE_MS )
           => \A raw \in Distances, door \in BOOLEAN :
                 (measuredDistance(State, raw) < ALERT_ENTER_CM
                      /\ ~(door /\ ~lastDoorState))
                 => LET n == sensePass(State, FALSE, FALSE, door, raw)
                    IN  /\ n.currentState = "ALARM"
                        /\ n.alarmCaller = "handleUltrasonicAlert"
                        /\ n.logged = << "Window Breach!", "ALARM TRIGGERED" >> )
    /\ [][AlertAction => AlertAgeInStep >= ALERT_RATE_MS]_vars

C7_Witness ==
    /\ currentState = "ALARM"
    /\ alarmCaller = "handleUltrasonicAlert"
    /\ logged = << "Window Breach!", "ALARM TRIGGERED" >>

\* a proximity alert in away mode that the rate limit suppressed
C7_SuppressedReached ==
    /\ currentState = "ARMED_AWAY"
    /\ pc = "scanKeypad"
    /\ inAlertZone
    /\ sinceLastUltrasonicAlert < ALERT_RATE_MS

LastFed == fed'[Len(fed')]

C11_NoWaitSuspendsThePollLoop ==
    (pc = "waitRelease") ~> (pc # "waitRelease")

\* the key-release wait entered while armed away with the entry delay running
C11_WaitReached ==
    /\ pc = "waitRelease"
    /\ currentState = "ARMED_AWAY"
    /\ entryDelayActive
    /\ keyDown = heldKey

\* what a key press can change besides the clocks: the buffer and the mode
KeyEffect(s) ==
    << s.inputCode, s.codeIndex, s.currentState, s.lastCommand,
       s.entryDelayActive, s.codeEntryMode, s.logged >>

\* the pass of the loop the thread stands in, handling key k
keyPass(k, d) ==
    IF pc = "handleAlarm" THEN alarmPass(State, k, d, FALSE)
    ELSE scanPass(State, k, d)

\* C12: on the normal path, the entry-delay path and in the alarm sub-loop the
\* buffer length codeIndex stays within 0..4 and counts the buffered digits;
\* '*' on an empty buffer changes nothing; a digit pressed on a buffer of 4
\* digits is dropped and leaves the buffer unchanged.
C12_CodeBufferBounded ==
    /\ codeIndex \in 0 .. CODE_LENGTH
    /\ Len(CString(inputCode)) = codeIndex
    /\ pc \in { "scanKeypad", "handleAlarm" } =>
          \A d \in Durations :
             /\ codeIndex = 0 =>
                   KeyEffect(keyPass("*", d)) = KeyEffect(keyPass(NUL, d))
             /\ codeIndex = CODE_LENGTH =>
                   \A k \in DigitKeys :
                      KeyEffect(keyPass(k, d)) = KeyEffect(keyPass(NUL, d))
             /\ \A k \in AllKeys : keyPass(k, d).codeIndex \in 0 .. CODE_LENGTH

\* a full buffer during the entry delay, where a further digit is dropped
C12_Witness ==
    /\ pc = "scanKeypad"
    /\ currentState = "ARMED_AWAY"
    /\ entryDelayActive
    /\ codeIndex = CODE_LENGTH
    /\ inputCode = << "2", "5", "8", "1" >>

\* C13: the code-entry buffer is empty immediately after every change of
\* SecurityState (arming, disarming, disarm during the entry delay, exit of
\* the alarm sub-loop, panic, sensor-triggered alarm).
C13_BufferEmptyAfterStateChange ==
    [][currentState' # currentState
          => (codeIndex' = 0 /\ inputCode' = EmptyCode)]_vars

\* the disarm during the entry delay, which leaves the 4 digits buffered
C13_StaleDigitsReached ==
    /\ currentState = "DISARMED"
    /\ pc = "checkSensors"
    /\ codeIndex = CODE_LENGTH
    /\ inputCode = SECURITY_CODE
    /\ sinceEntryDelayStart > 0

\* a sensor pass in which nothing moves, the door keeps its position and
\* nothing is within range
quietPass(s) == sensePass(s, FALSE, FALSE, s.lastDoorState, MAX_RANGE_CM)

\* the keys pressed one per pass of the poll loop, the sensors quiet, until
\* the keys are used up or an alarm is raised
RECURSIVE pollKeys(_, _, _)
pollKeys(s, keys, d) ==
    IF keys = << >> \/ s.pc = "handleAlarm" THEN s
    ELSE LET q == IF s.pc = "checkSensors" THEN quietPass(s) ELSE s
         IN  IF q.pc = "handleAlarm" THEN q
             ELSE pollKeys(scanPass(q, Head(keys), d), Tail(keys), d)

\* C14: the pending command lives for one code-entry episode: once '#' has
\* confirmed a 4-digit code, valid or not, the provisioned code followed by
\* '#' entered without a new 'A', 'B' or 'C' changes no SecurityState.
C14_PendingCommandClearedAfterConfirm ==
    (pc = "scanKeypad" /\ currentState # "ALARM" /\ codeIndex = CODE_LENGTH)
    => \A d \in Durations :
          LET n == scanPass(State, "#", d)
          IN  (n.pc # "handleAlarm" /\ ~n.entryDelayActive)
              => pollKeys(n, SECURITY_CODE \o << "#" >>, d).currentState
                     = n.currentState

\* C15: in DISARMED, whatever happened before, the keys C,2,5,8,0,# leave the
\* state DISARMED and append the disarm transition record.
C15_DisarmIdempotent ==
    (pc = "scanKeypad" /\ currentState = "DISARMED")
    => \A d \in Durations :
          LET m == pollKeys(State, << "C" >> \o SECURITY_CODE \o << "#" >>, d)
          IN  /\ m.currentState = "DISARMED"
              /\ m.logged = << "System Disarmed" >>

\* DISARMED with the pending command of an earlier, unfinished arming
C15_PendingArmReached ==
    /\ pc = "scanKeypad"
    /\ currentState = "DISARMED"
    /\ lastCommand = "B"
    /\ codeIndex = 2

\* C16: while ARMED_AWAY with an active entry-delay window that has not yet
\* expired, a true reading on either motion sensor does not set ALARM.
C16_NoMotionAlarmDuringEntryDelay ==
    ( /\ pc = "checkSensors"
      /\ currentState = "ARMED_AWAY"
      /\ entryDelayActive
      /\ remainingSeconds(sinceEntryDelayStart) > 0 )
    => \A pir1, pir2, door \in BOOLEAN, raw \in Distances :
          (pir1 \/ pir2)
          => sensePass(State, pir1, pir2, door, raw).currentState # "ALARM"

\* a motion alarm raised in ARMED_AWAY while the door stood open
C16_MotionAlarmInWindowReached ==
    /\ currentState = "ALARM"
    /\ alarmCaller = "handleMotionDetected"
    /\ logged = << "Motion Detected!", "ALARM TRIGGERED" >>
    /\ lastDoorState

\* C17: a door rising edge in ARMED_AWAY during an active entry delay leaves
\* the start of the window and the partially entered code unchanged and logs
\* no second 'Entry Started' record.
C17_DoorEdgeKeepsActiveWindow ==
    ( /\ pc = "checkSensors"
      /\ currentState = "ARMED_AWAY"
      /\ entryDelayActive
      /\ ~lastDoorState
      /\ remainingSeconds(sinceEntryDelayStart) > 0 )
    => \A raw \in Distances :
          LET n == sensePass(State, FALSE, FALSE, TRUE, raw)
          IN  /\ n.entryDelayActive
              /\ n.sinceEntryDelayStart = sinceEntryDelayStart
              /\ n.inputCode = inputCode
              /\ n.codeIndex = codeIndex
              /\ \A i \in DOMAIN n.logged : n.logged[i] # "Entry Started"

\* the window running with digits entered and the door closed again
C17_WindowWithDoorClosedReached ==
    /\ pc = "checkSensors"
    /\ currentState = "ARMED_AWAY"
    /\ entryDelayActive
    /\ ~lastDoorState
    /\ codeIndex = 3
    /\ sinceEntryDelayStart >= 5000

\* a step appended an arming record
ArmingLogged ==
    \E i \in DOMAIN logged' :
        logged'[i] \in { "System Armed - Home Mode", "System Armed - Away Mode" }

\* C18: at every boundary of a pass an active entry-delay window implies
\* ARMED_AWAY; the window is inactive after every transition away from
\* ARMED_AWAY and immediately after every arming and re-arming.
C18_WindowOnlyWhileArmedAway ==
    /\ [](entryDelayActive => currentState = "ARMED_AWAY")
    /\ [][(currentState = "ARMED_AWAY" /\ currentState' # "ARMED_AWAY")
             => ~entryDelayActive']_vars
    /\ [][ArmingLogged => (~entryDelayActive' /\ currentState' \in Armed)]_vars

\* the window ended by its timeout
C18_Witness ==
    /\ currentState = "ALARM"
    /\ alarmCaller = "processEntryDelay"
    /\ ~entryDelayActive
    /\ logged = << "ALARM TRIGGERED" >>

\* the system re-armed away after a window was cancelled by the valid code
C18_RearmedReached ==
    /\ currentState = "ARMED_AWAY"
    /\ ~entryDelayActive
    /\ lastDoorState
    /\ logged = << "System Armed - Away Mode" >>

\* C19: the door-edge memory is updated on every poll pass in every state, so
\* a door that was opened while DISARMED and is still open when the system is
\* armed raises no door-open event (no entry delay, no notice, no record).
C19_DoorMemoryUpdatedEveryPass ==
    /\ pc = "checkSensors" =>
          \A door \in BOOLEAN :
             LET n == sensePass(State, FALSE, FALSE, door, MAX_RANGE_CM)
             IN  n.pc # "handleAlarm" => n.lastDoorState = door
    /\ ( /\ pc = "checkSensors"
         /\ currentState = "DISARMED"
         /\ lastCommand \in { "A", "B" }
         /\ codeIndex = CODE_LENGTH
         /\ inputCode = SECURITY_CODE )
       => \A d \in Durations :
             LET opened == sensePass(State, FALSE, FALSE, TRUE, MAX_RANGE_CM)
                 armed == scanPass(opened, "#", d)
                 after == sensePass(armed, FALSE, FALSE, TRUE, MAX_RANGE_CM)
             IN  /\ armed.currentState \in Armed
                 /\ ~after.entryDelayActive
                 /\ after.logged = << >>

\* about to arm away with the door-edge memory still saying closed
C19_ArmingReached ==
    /\ pc = "checkSensors"
    /\ currentState = "DISARMED"
    /\ lastCommand = "B"
    /\ codeIndex = CODE_LENGTH
    /\ inputCode = SECURITY_CODE
    /\ ~lastDoorState

\* C20: the proximity latch is clear whenever the system is not armed, so the
\* first reading below 10 cm after an arming raises an alert (the previous
\* alert being at least 1000 ms old), even if the previous armed period ended
\* with the object inside the alert zone.
C20_LatchResetOnStateExit ==
    /\ currentState \notin Armed => ~inAlertZone
    /\ ( /\ pc = "checkSensors"
         /\ currentState \in Armed
         /\ logged \in { << "System Armed - Home Mode" >>,
                         << "System Armed - Away Mode" >> }
         /\ sinceLastUltrasonicAlert >= ALERT_RATE_MS )
       => \A raw \in Distances :
             measuredDistance(State, raw) < ALERT_ENTER_CM
             => LET n == sensePass(State, FALSE, FALSE, lastDoorState, raw)
                IN  \E i \in DOMAIN n.logged :
                       n.logged[i] \in { "Proximity Alert", "Window Breach!" }

\* disarmed while the object was inside the alert zone
C20_LatchedWhileDisarmedReached ==
    /\ currentState = "DISARMED"
    /\ inAlertZone
    /\ logged = << "System Disarmed" >>

\* pollKeys, keeping the records logged on the way: [state, log]
RECURSIVE pollKeysLog(_, _, _, _)
pollKeysLog(s, keys, d, log) ==
    IF keys = << >> \/ s.pc = "handleAlarm" THEN [ state |-> s, log |-> log ]
    ELSE LET q == IF s.pc = "checkSensors" THEN quietPass(s) ELSE s
         IN  IF q.pc = "handleAlarm"
             THEN [ state |-> q, log |-> log \o q.logged ]
             ELSE LET n == scanPass(q, Head(keys), d)
                  IN  pollKeysLog(n, Tail(keys), d,
                                  log \o (IF s.pc = "checkSensors" THEN q.logged
                                          ELSE << >>) \o n.logged)

\* how many records of log are in the set events
CountLogged(log, events) ==
    Cardinality({ i \in DOMAIN log : log[i] \in events })

DisarmRecords == { "System Disarmed", "Alarm Disarmed" }

\* C21: from ARMED_AWAY, one door-open edge followed by the provisioned code
\* and '#' before expiry ends in DISARMED with exactly one 'Entry Started'
\* record, exactly one disarm record and no alarm record in the log.
C21_EntryDisarmScenarioLog ==
    ( /\ pc = "checkSensors"
      /\ currentState = "ARMED_AWAY"
      /\ ~entryDelayActive
      /\ ~lastDoorState )
    => \A d \in Durations :
          LET opened == sensePass(State, FALSE, FALSE, TRUE, MAX_RANGE_CM)
              r == pollKeysLog(opened, SECURITY_CODE \o << "#" >>, d, opened.logged)
          IN  /\ r.state.currentState = "DISARMED"
              /\ CountLogged(r.log, { "Entry Started" }) = 1
              /\ CountLogged(r.log, { "ALARM TRIGGERED" }) = 0
              /\ CountLogged(r.log, DisarmRecords) = 1

\* armed away with the door closed, where the scenario starts
C21_ScenarioStartReached ==
    /\ pc = "checkSensors"
    /\ currentState = "ARMED_AWAY"
    /\ ~entryDelayActive
    /\ ~lastDoorState
    /\ logged = << "System Armed - Away Mode" >>

\* '#' is about to confirm 4 buffered digits that are not the provisioned code
InvalidSubmission ==
    /\ pc \in { "scanKeypad", "handleAlarm" }
    /\ pc = "handleAlarm" => codeEntryMode
    /\ codeIndex = CODE_LENGTH
    /\ inputCode # SECURITY_CODE

\* C22: every submission of an invalid 4-digit code appends one log record,
\* on the normal path, during the entry delay and in the alarm sub-loop.
C22_InvalidCodeLogged ==
    InvalidSubmission
    => \A d \in Durations : Len(keyPass("#", d).logged) = 1

\* an invalid code about to be submitted on the normal path
C22_NormalPathReached ==
    /\ InvalidSubmission
    /\ pc = "scanKeypad"
    /\ currentState = "ARMED_HOME"
    /\ lastCommand = "C"

\* C23: while DISARMED, a door-open edge appends a log record and causes no
\* alert and no change of state.
C23_DisarmedDoorLogged ==
    (pc = "checkSensors" /\ currentState = "DISARMED" /\ ~lastDoorState)
    => \A pir1, pir2 \in BOOLEAN, raw \in Distances :
          LET n == sensePass(State, pir1, pir2, TRUE, raw)
          IN  /\ n.currentState = "DISARMED"
              /\ ~n.entryDelayActive
              /\ Len(n.logged) = 1

\* a poll pass in DISARMED after the system had been armed and disarmed
C23_DisarmedPassReached ==
    /\ pc = "checkSensors"
    /\ currentState = "DISARMED"
    /\ ~lastDoorState
    /\ logged = << "System Disarmed" >>

\* everything but the storage: state, buffer, pending command, window, sensor
\* memories, clocks, the place of the thread and the events handed to logEvent
Control(s) ==
    << s.currentState, s.inputCode, s.codeIndex, s.lastCommand,
       s.entryDelayActive, s.sinceEntryDelayStart, s.lastDoorState,
       s.sinceLastUltrasonicAlert, s.inAlertZone, s.sinceLastMeasure,
       s.lastUpdateSet, s.sinceLastUpdate, s.pc, s.codeEntryMode,
       s.alarmCaller, s.logged >>

\* the present state with the storage in another condition
WithStorage(m, c) == [ State EXCEPT !.mounted = m, !.cardOk = c ]

\* C24: log failure is not propagated: whatever the key and sensor inputs of
\* a pass, its effect on state, buffer, entry-delay window and on where the
\* thread stands next is the same whether the card is mounted or not and
\* whether the appends succeed or fail; a failed append does not hold up the
\* pass.
C24_LogFailureNotPropagated ==
    \A m, c \in BOOLEAN :
       /\ pc = "scanKeypad" =>
             \A k \in AllKeys, d \in LogDurations :
                Control(scanPass(WithStorage(m, c), k, d))
                    = Control(scanPass(State, k, d))
       /\ pc = "checkSensors" =>
             \A pir1, pir2, door \in BOOLEAN, raw \in LogDistances :
                Control(sensePass(WithStorage(m, c), pir1, pir2, door, raw))
                    = Control(sensePass(State, pir1, pir2, door, raw))
       /\ pc = "handleAlarm" =>
             \A k \in AllKeys, d \in LogDurations, door \in BOOLEAN :
                Control(alarmPass(WithStorage(m, c), k, d, door))
                    = Control(alarmPass(State, k, d, door))

\* the panic alarm raised while the card refused the appends
C24_Witness ==
    /\ currentState = "ALARM"
    /\ logged = << "Panic Button Pressed", "ALARM TRIGGERED" >>
    /\ written = << >>
    /\ mounted
    /\ ~cardOk

\* the same with the card never mounted
C24_UnmountedReached ==
    /\ currentState = "ARMED_AWAY"
    /\ logged = << "System Armed - Away Mode" >>
    /\ written = << >>
    /\ ~mounted

\* C25: code validation is a function of the buffer alone: wherever '#' can
\* confirm, the buffer holds 4 digits; validation is true exactly for the
\* buffer 2580 and false for every other, and the confirmation acts on the
\* pending command exactly when the buffer is 2580.
C25_ValidationPureFunctionOfBuffer ==
    /\ validateCode(inputCode) <=> inputCode = SECURITY_CODE
    /\ codeIndex = CODE_LENGTH =>
          /\ Len(CString(inputCode)) = CODE_LENGTH
          /\ \A i \in 1 .. CODE_LENGTH : inputCode[i] \in AllDigits
    /\ ( /\ pc \in { "scanKeypad", "handleAlarm" }
         /\ codeIndex = CODE_LENGTH
         /\ currentState = "DISARMED" => lastCommand = "A" )
       => \A d \in LogDurations :
             keyPass("#", d).currentState # currentState
                 <=> inputCode = SECURITY_CODE

\* the buffer 2580 was validated and armed home mode
C25_Witness ==
    /\ currentState = "ARMED_HOME"
    /\ logged = << "System Armed - Home Mode" >>
    /\ codeIndex = 0

\* a buffer that differs from the code in its last digit only was refused
C25_NearMissReached ==
    /\ currentState = "ALARM"
    /\ logged = << "Wrong Code Entry During Alarm" >>
    /\ ~codeEntryMode

\* C26: at every countdown evaluation with the window active and 30 s or
\* more elapsed since the door opened, 31 s and later included, the window is
\* treated as expired and the state becomes ALARM.
C26_ExpiryForEveryElapsed ==
    ( /\ pc = "checkSensors"
      /\ currentState = "ARMED_AWAY"
      /\ entryDelayActive
      /\ sinceLastUpdate >= UPDATE_PERIOD_MS \/ ~lastUpdateSet
      /\ sinceEntryDelayStart >= ENTRY_DELAY_SEC * 1000 )
    => processEntryDelay(State).currentState = "ALARM"

\* an evaluation at exactly 30 s elapsed is about to happen
C26_EvaluationAtThirtyReached ==
    /\ pc = "checkSensors"
    /\ currentState = "ARMED_AWAY"
    /\ entryDelayActive
    /\ sinceLastUpdate >= UPDATE_PERIOD_MS
    /\ sinceEntryDelayStart = ENTRY_DELAY_SEC * 1000
    /\ processEntryDelay(State).currentState = "ALARM"

\* the age of the entry-delay timestamp after ms milliseconds when the
\* timestamp itself was left alone
AgedStart(ms) ==
    IF entryDelayActive
    THEN Saturate(sinceEntryDelayStart + ms, MaxEntrySec * 1000)
    ELSE 0

\* C27: '#' with 4 buffered digits that are not the code, in the normal
\* path, the entry-delay path or the code entry of the alarm sub-loop, leaves
\* SecurityState unchanged, leaves the entry-delay window (active flag and
\* start timestamp) unchanged, and empties the buffer.
C27_InvalidCodeFrame ==
    ( /\ pc \in { "scanKeypad", "handleAlarm" }
      /\ pc = "handleAlarm" => codeEntryMode
      /\ codeIndex = CODE_LENGTH
      /\ inputCode # SECURITY_CODE )
    => \A d \in Durations :
          LET n == keyPass("#", d)
              pause == IF pc = "handleAlarm" THEN 1000 ELSE WRONG_CODE_MS
          IN  /\ n.currentState = currentState
              /\ n.entryDelayActive = entryDelayActive
              /\ n.sinceEntryDelayStart = AgedStart(d + pause)
              /\ n.codeIndex = 0
              /\ n.inputCode = EmptyCode

\* a wrong code was just refused in the alarm sub-loop: the alarm goes on
\* with an empty buffer
C27_Witness ==
    /\ pc = "handleAlarm"
    /\ currentState = "ALARM"
    /\ logged = << "Wrong Code Entry During Alarm" >>
    /\ codeIndex = 0
    /\ inputCode = EmptyCode

\* a wrong code is about to be refused while the entry-delay window runs
C27_EntryPathReached ==
    /\ pc = "scanKeypad"
    /\ currentState = "ARMED_AWAY"
    /\ entryDelayActive
    /\ sinceEntryDelayStart > 0
    /\ codeIndex = CODE_LENGTH
    /\ inputCode # SECURITY_CODE
    /\ keyPass("#", 500).sinceEntryDelayStart = sinceEntryDelayStart + 500 + WRONG_CODE_MS

\* a wrong code is about to be refused on the normal path, armed
C27_NormalPathReached ==
    /\ pc = "scanKeypad"
    /\ currentState = "ARMED_HOME"
    /\ codeIndex = CODE_LENGTH
    /\ inputCode # SECURITY_CODE
    /\ lastCommand = "C"

\* a wrong code is about to be refused in the alarm sub-loop
C27_AlarmPathReached ==
    /\ pc = "handleAlarm"
    /\ codeEntryMode
    /\ codeIndex = CODE_LENGTH
    /\ inputCode # SECURITY_CODE

\* C28: '#' pressed while fewer than 4 digits are buffered validates
\* nothing and changes neither SecurityState, the buffer, the pending
\* command nor the entry-delay window, in the normal path, the entry-delay
\* path and the alarm sub-loop.
C28_ShortConfirmationIgnored ==
    (pc \in { "scanKeypad", "handleAlarm" } /\ codeIndex < CODE_LENGTH)
    => \A d \in Durations :
          LET n == keyPass("#", d)
          IN  /\ n.currentState = currentState
              /\ n.inputCode = inputCode
              /\ n.codeIndex = codeIndex
              /\ n.lastCommand = lastCommand
              /\ n.entryDelayActive = entryDelayActive
              /\ n.sinceEntryDelayStart = AgedStart(d)
              /\ n.codeEntryMode = codeEntryMode
              /\ n.logged = << >>

\* '#' is about to be pressed on the normal path with the first 3 digits of
\* the code buffered and arming pending
C28_Witness ==
    /\ pc = "scanKeypad"
    /\ currentState = "DISARMED"
    /\ lastCommand = "B"
    /\ codeIndex = 3
    /\ inputCode = << "2", "5", "8", NUL >>
    /\ keyPass("#", 500).inputCode = inputCode

\* the same during the entry delay
C28_EntryPathReached ==
    /\ pc = "scanKeypad"
    /\ currentState = "ARMED_AWAY"
    /\ entryDelayActive
    /\ codeIndex = 3
    /\ inputCode = << "2", "5", "8", NUL >>
    /\ keyPass("#", 500).currentState = "ARMED_AWAY"

\* the same in the code entry of the alarm sub-loop
C28_AlarmPathReached ==
    /\ pc = "handleAlarm"
    /\ codeEntryMode
    /\ codeIndex = 3
    /\ inputCode = << "2", "5", "8", NUL >>
    /\ keyPass("#", 500).currentState = "ALARM"

\* C29: while SecurityState is DISARMED the sensors are not looked at: no
\* motion, door or distance reading changes anything (no state change, no
\* entry delay, no alert, no record), and the only passes that leave DISARMED
\* are keypad passes: '#' on the valid code with 'A' or 'B' pending, or the
\* panic key 'D'.
C29_DisarmedIgnoresSensors ==
    currentState = "DISARMED" =>
       /\ pc \in { "scanKeypad", "checkSensors" }
       /\ pc = "checkSensors" =>
             \A pir1, pir2, door \in BOOLEAN, raw \in Distances :
                sensePass(State, pir1, pir2, door, raw)
                   = [ State EXCEPT !.pc = "scanKeypad",
                                    !.logged = << >>, !.written = << >> ]
       /\ pc = "scanKeypad" =>
             \A k \in AllKeys, d \in Durations :
                LET n == scanPass(State, k, d)
                IN  n.currentState # "DISARMED" =>
                       \/ k = "D" /\ n.currentState = "ALARM"
                       \/ /\ k = "#"
                          /\ codeIndex = CODE_LENGTH
                          /\ inputCode = SECURITY_CODE
                          /\ \/ lastCommand = "A" /\ n.currentState = "ARMED_HOME"
                             \/ lastCommand = "B" /\ n.currentState = "ARMED_AWAY"

\* disarmed after having been armed, the door closed at the last sample: a
\* pass with motion on both sensors, the door open and an object at 9 cm is
\* about to run
C29_Witness ==
    /\ pc = "checkSensors"
    /\ currentState = "DISARMED"
    /\ logged = << "System Disarmed" >>
    /\ ~lastDoorState
    /\ sensePass(State, TRUE, TRUE, TRUE, 9).currentState = "DISARMED"

\* the panic key is about to leave DISARMED
C29_PanicExitReached ==
    /\ pc = "scanKeypad"
    /\ currentState = "DISARMED"
    /\ lastCommand = "C"
    /\ scanPass(State, "D", 500).currentState = "ALARM"

\* C30: right after a disarm, whether by the normal path, during the entry
\* delay or from the alarm sub-loop, '#' pressed alone with no further digits
\* leaves SecurityState DISARMED: it does not arm the system again.
C30_ConfirmAloneAfterDisarm ==
    (pc \in { "scanKeypad", "handleAlarm" } /\ currentState # "DISARMED")
    => \A k \in AllKeys, d \in Durations :
          LET n == keyPass(k, d)
          IN  n.currentState = "DISARMED"
                 => pollKeys(n, << "#" >>, d).currentState = "DISARMED"

\* the valid code is about to disarm during the entry delay
C30_EntryDisarmReached ==
    /\ pc = "scanKeypad"
    /\ currentState = "ARMED_AWAY"
    /\ entryDelayActive
    /\ lastCommand = "B"
    /\ keyPass("#", 500).currentState = "DISARMED"

\* C31: a distance request that comes less than 60 ms after the previous
\* measurement, and is skipped, does not change the proximity latch; so
\* while every reading is closer than 10 cm at most one alert-entry event
\* occurs, whatever the spacing of the poll passes.
C31_SkippedRequestKeepsLatch ==
    /\ ( /\ pc = "checkSensors"
         /\ currentState \in Armed
         /\ ~entryDelayActive
         /\ sinceLastMeasure < MEASURE_SPACING_MS )
       => \A raw \in SpacingDistances :
             sensePass(State, FALSE, FALSE, FALSE, raw).inAlertZone = inAlertZone
    /\ (\A i \in DOMAIN fed : fed[i] < ALERT_ENTER_CM) => alertEntries <= 1

\* a request is about to be skipped while the latch is set and the object
\* is inside the zone
C31_SkippedRequestReached ==
    /\ pc = "checkSensors"
    /\ currentState = "ARMED_HOME"
    /\ inAlertZone
    /\ sinceLastMeasure < MEASURE_SPACING_MS
    /\ fed # << >>
    /\ \A i \in DOMAIN fed : fed[i] < ALERT_ENTER_CM

====
